---- MODULE Spec2Model ----
(***************************************************************************)
(* LAN peer discovery of crust (src/src/beacon.rs): the 27-byte address    *)
(* codec, the 2-byte port codec, BroadcastAcceptor::accept with its        *)
(* transport task (run_acceptor) and beacon task (run_listener), and       *)
(* seek_peers with its background receiver (runner).                       *)
(*                                                                         *)
(* Bytes are integers 0..255.  Rust's 0-based buffer index i is position   *)
(* i+1 of a TLA+ sequence; At(buffer, i) reads it.  A u32 (flowinfo,       *)
(* scope_id) is kept as its two 16-bit halves [hi, lo], since the model    *)
(* checker's integers are 32-bit signed.                                   *)
(***************************************************************************)
EXTENDS Integers, Sequences, FiniteSets, TLC

\* ------------------------------------------------------------ constants

GUID_SIZE == 16

MAGIC_SIZE == 4

\* ['m', 'a', 'i', 'd']
MAGIC == <<109, 97, 105, 100>>

\* ---------------------------------------------------------------- bounds

\* calls of accept() and seek_peers made in one run
MaxOps == 3

\* events of the environment in one run: an I/O error reported by the operating
\* system, a datagram of another host, a reply of another listener
MaxEnv == 1

\* connections the seeking node opens to addresses it has discovered
MaxConns == 2

\* longest raw buffer handed to parse_address
MaxBufLen == 28

\* ------------------------------------------------------ integer widths

U8(x) == x % 256

U16(x) == x % 65536

\* x >> n
Shr(x, n) == x \div (2 ^ n)

\* (x as u16) << n
Shl16(x, n) == U16(x * (2 ^ n))

\* buffer[i], Rust's 0-based index; "oob" stands for the index-out-of-bounds panic
At(buffer, i) == IF i + 1 <= Len(buffer) THEN buffer[i + 1] ELSE "oob"

InBounds(buffer, i) == i + 1 <= Len(buffer)

\* ------------------------------------------------------------ PortCodec

\* the two bytes in the order of the address codec
serialise_port_BigEndian(port) == <<U8(Shr(port, 8)), U8(port % 256)>>

serialise_port(port) == <<U8(port % 256), U8(Shr(port, 8))>>

\* the two bytes added without the shift
parse_port_NoShift(data) == U16(data[1] + data[2])

parse_port(data) == U16(data[1] + Shl16(data[2], 8))

\* --------------------------------------------------------- AddressCodec

\* the casts without the shifts by 24 and 16
U32Bytes_LowHalfOnly(x) == <<0, 0, U8(Shr(x.lo, 8)), U8(x.lo)>>

\* (x >> 24) as u8, (x >> 16) as u8, (x >> 8) as u8, x as u8 of a u32 [hi, lo]
U32Bytes(x) == <<U8(Shr(x.hi, 8)), U8(x.hi), U8(Shr(x.lo, 8)), U8(x.lo)>>

\* (b0 << 24) + (b1 << 16) + (b2 << 8) + b3 as a u32 [hi, lo]
U32FromBytes(b0, b1, b2, b3) == [hi |-> U16(Shl16(b0, 8) + b1), lo |-> U16(Shl16(b2, 8) + b3)]

\* the port of either family written low byte first, as serialise_port does
serialise_address_PortLowFirst(our_listening_address) ==
  LET a == our_listening_address IN
  IF a.family = "V4"
  THEN [k \in 1..27 |->
          LET i == k - 1 IN
          CASE i = 0 -> 0
            [] i \in 1..4 -> a.ip[i]
            [] i = 5 -> U8(a.port)
            [] i = 6 -> U8(Shr(a.port, 8))
            [] OTHER -> 0]
  ELSE [k \in 1..27 |->
          LET i == k - 1 IN
          CASE i = 0 -> 1
            [] i \in 1..16 ->
                 IF i % 2 = 1 THEN U8(Shr(a.segments[(i + 1) \div 2], 8))
                              ELSE U8(a.segments[i \div 2])
            [] i = 17 -> U8(a.port)
            [] i = 18 -> U8(Shr(a.port, 8))
            [] i \in 19..22 -> U32Bytes(a.flowinfo)[i - 18]
            [] OTHER -> U32Bytes(a.scope_id)[i - 22]]

serialise_address(our_listening_address) ==
  LET a == our_listening_address IN
  IF a.family = "V4"
  THEN [k \in 1..27 |->
          LET i == k - 1 IN
          CASE i = 0 -> 0
            [] i \in 1..4 -> a.ip[i]
            [] i = 5 -> U8(Shr(a.port, 8))
            [] i = 6 -> U8(a.port)
            [] OTHER -> 0]
  ELSE [k \in 1..27 |->
          LET i == k - 1 IN
          CASE i = 0 -> 1
            [] i \in 1..16 ->
                 IF i % 2 = 1 THEN U8(Shr(a.segments[(i + 1) \div 2], 8))
                              ELSE U8(a.segments[i \div 2])
            [] i = 17 -> U8(Shr(a.port, 8))
            [] i = 18 -> U8(a.port)
            [] i \in 19..22 -> U32Bytes(a.flowinfo)[i - 18]
            [] OTHER -> U32Bytes(a.scope_id)[i - 22]]

\* the IPv6 arm taken for every first byte but 0
parse_address_V6Default(buffer) ==
  IF ~InBounds(buffer, 0) THEN [tag |-> "panic"]
  ELSE IF At(buffer, 0) = 0 THEN
    IF ~InBounds(buffer, 6) THEN [tag |-> "panic"]
    ELSE [tag |-> "Some",
          addr |-> [family |-> "V4",
                    ip |-> <<At(buffer, 1), At(buffer, 2), At(buffer, 3), At(buffer, 4)>>,
                    port |-> U16((At(buffer, 5) * 256) + At(buffer, 6))]]
  ELSE
    IF ~InBounds(buffer, 26) THEN [tag |-> "panic"]
    ELSE [tag |-> "Some",
          addr |-> [family |-> "V6",
                    segments |-> [j \in 1..8 |->
                       U16(Shl16(At(buffer, (2 * (j - 1)) + 1), 8) + At(buffer, (2 * (j - 1)) + 2))],
                    port |-> U16(Shl16(At(buffer, 17), 8) + At(buffer, 18)),
                    flowinfo |-> U32FromBytes(At(buffer, 19), At(buffer, 20), At(buffer, 21), At(buffer, 22)),
                    scope_id |-> U32FromBytes(At(buffer, 23), At(buffer, 24), At(buffer, 25), At(buffer, 26))]]

\* Some(address), None, or the panic of an out-of-bounds index
parse_address(buffer) ==
  IF ~InBounds(buffer, 0) THEN [tag |-> "panic"]
  ELSE IF At(buffer, 0) = 0 THEN
    IF ~InBounds(buffer, 6) THEN [tag |-> "panic"]
    ELSE [tag |-> "Some",
          addr |-> [family |-> "V4",
                    ip |-> <<At(buffer, 1), At(buffer, 2), At(buffer, 3), At(buffer, 4)>>,
                    port |-> U16((At(buffer, 5) * 256) + At(buffer, 6))]]
  ELSE IF At(buffer, 0) = 1 THEN
    IF ~InBounds(buffer, 26) THEN [tag |-> "panic"]
    ELSE [tag |-> "Some",
          addr |-> [family |-> "V6",
                    segments |-> [j \in 1..8 |->
                       U16(Shl16(At(buffer, (2 * (j - 1)) + 1), 8) + At(buffer, (2 * (j - 1)) + 2))],
                    port |-> U16(Shl16(At(buffer, 17), 8) + At(buffer, 18)),
                    flowinfo |-> U32FromBytes(At(buffer, 19), At(buffer, 20), At(buffer, 21), At(buffer, 22)),
                    scope_id |-> U32FromBytes(At(buffer, 23), At(buffer, 24), At(buffer, 25), At(buffer, 26))]]
  ELSE [tag |-> "None"]

\* ------------------------------------------------------- the network

AcceptorIp == <<192, 168, 0, 1>>

SeekerIp == <<192, 168, 0, 2>>

OtherIp == <<192, 168, 0, 3>>

\* ports the OS may assign to the passive endpoint for Port::Tcp(0): one
\* whose two bytes differ
TcpPorts == {5483}

\* ports the OS may assign to the beacon socket for BroadcastAcceptor::new(0)
BeaconPorts == {5484}

\* the ephemeral UDP socket seek_peers call s binds ("0.0.0.0:0")
SeekSock(s) == [ip |-> SeekerIp, port |-> 40000 + s]

\* a UDP socket of another host
OtherSock == [ip |-> OtherIp, port |-> 40000]

\* the transport endpoint another listener on the LAN advertises
OtherListener == [ip |-> OtherIp, port |-> 513]

ZeroGuid == [i \in 1..GUID_SIZE |-> 0]

\* values random::<u8>() may give the 16 bytes of the acceptor's guid
Guids == {ZeroGuid, [i \in 1..GUID_SIZE |-> i]}

ForeignGuid == [i \in 1..GUID_SIZE |-> 200 + i]

\* datagrams other hosts send to the beacon port: a ping of another peer, a
\* full-length datagram with a wrong magic, the bare 4-byte magic
StrayData ==
  { MAGIC \o ForeignGuid,
    <<0, 0, 0, 0>> \o ForeignGuid,
    MAGIC }

None == [tag |-> "None"]

Some(x) == [tag |-> "Some", val |-> x]

\* guid_to_avoid.unwrap_or([0; GUID_SIZE])
unwrap_or(opt, default) == IF opt.tag = "Some" THEN opt.val ELSE default

Calls == 1..MaxOps

Seeks == 1..MaxOps

\* ----------------------------------------------------------------- state

VARIABLES
  guid,            \* BroadcastAcceptor.guid
  tcp_port,        \* acceptor.local_endpoint().get_address().port()
  guard,           \* holder of the Mutex<Acceptor> guard: a call, or 0 when free
  backlog,         \* inbound connections pending on the passive endpoint
  beaconQ,         \* datagrams queued on BroadcastAcceptor.socket
  accept_pc,       \* accept() call c: idle, wait_port, joining, returned, panicked
  t1_pc,           \* run_acceptor of call c: none, lock, accepting, done, failed
  t2_pc,           \* run_listener of call c: none, receiving, done, failed
  port_chan,       \* (port_sender, port_receiver) of call c
  call_tcp_port,   \* tcp_port of call c (None until received)
  transport_chan,  \* (transport_sender, transport_receiver) of call c
  buffer,          \* run_listener's buffer of call c
  accept_ret,      \* the Transport call c returned (0: none)
  accepted,        \* history: the connection transport::accept gave call c (0: none)
  heard,           \* history: the datagrams run_listener of call c received
  sent,            \* history: the replies sent, in order, each with the datagram that
                   \* triggered it, its place in heard, and whether the seeker's window was open
  seek_pc,         \* seek_peers call s: idle, window, done, failed
  seek_guid,       \* guid_to_avoid of seek_peers call s
  runner_pc,       \* runner of call s: none, receiving, done, late, failed
  seekQ,           \* datagrams queued on the socket of seek_peers call s
  rx,              \* (tx, rx) of seek_peers call s
  result,          \* the Vec<SocketAddr> seek_peers call s returned
  conns,           \* history: the connections opened, in order
  beacon_port,     \* the port BroadcastAcceptor.socket is bound to
  arrived,         \* history: the datagrams that reached the socket of seek_peers call s,
                   \* each with the address it was sent to
  early,           \* history: the ping of call s was sent while no beacon task had
                   \* started and no datagram was queued on the beacon socket
  ops,             \* calls of accept() and seek_peers made so far
  env,             \* events of the environment so far
  codec            \* the codec harness: [pc, input, wire, out]

protoVars ==
  <<guid, tcp_port, guard, backlog, beaconQ, accept_pc, t1_pc, t2_pc, port_chan,
    call_tcp_port, transport_chan, buffer, accept_ret, accepted, heard, sent, seek_pc,
    seek_guid, runner_pc, seekQ, rx, result, conns, ops, env, beacon_port, arrived,
    early>>

vars == <<protoVars, codec,
                 beacon_port, arrived, early>>

\* BroadcastAcceptor::new: both sockets bound, the guid drawn; no call made yet
ProtoInit ==
  /\ guid \in Guids
  /\ tcp_port \in TcpPorts
  /\ guard = 0
  /\ backlog = <<>>
  /\ beaconQ = <<>>
  /\ accept_pc = [c \in Calls |-> "idle"]
  /\ t1_pc = [c \in Calls |-> "none"]
  /\ t2_pc = [c \in Calls |-> "none"]
  /\ port_chan = [c \in Calls |-> <<>>]
  /\ call_tcp_port = [c \in Calls |-> None]
  /\ transport_chan = [c \in Calls |-> <<>>]
  /\ buffer = [c \in Calls |-> <<>>]
  /\ accept_ret = [c \in Calls |-> 0]
  /\ accepted = [c \in Calls |-> 0]
  /\ heard = [c \in Calls |-> <<>>]
  /\ sent = <<>>
  /\ seek_pc = [s \in Seeks |-> "idle"]
  /\ seek_guid = [s \in Seeks |-> None]
  /\ runner_pc = [s \in Seeks |-> "none"]
  /\ seekQ = [s \in Seeks |-> <<>>]
  /\ rx = [s \in Seeks |-> <<>>]
  /\ result = [s \in Seeks |-> <<>>]
  /\ conns = <<>>
  /\ beacon_port \in BeaconPorts
  /\ arrived = [s \in Seeks |-> <<>>]
  /\ early = [s \in Seeks |-> FALSE]
  /\ ops = 0
  /\ env = 0

CodecOff == [pc |-> "off"]

Init == ProtoInit /\ codec = CodecOff

\* --------------------------------------------------------- UDP helpers

\* socket.recv_from(&mut buffer): the datagram's bytes overwrite the front of
\* the buffer, cut to the buffer's length; the rest of the buffer is kept
recv_from(buf, data) ==
  [k \in 1..Len(buf) |-> IF k <= Len(data) THEN data[k] ELSE buf[k]]

\* buffer[0..MAGIC_SIZE] != MAGIC
magic_differs(buf) == SubSeq(buf, 1, MAGIC_SIZE) # MAGIC

\* the guid compared from the start of the buffer
guid_is_own_NoOffset(buf, own) == SubSeq(buf, 1, GUID_SIZE) = own

\* buffer[MAGIC_SIZE..(MAGIC_SIZE+GUID_SIZE)] == self.guid
guid_is_own(buf, own) == SubSeq(buf, MAGIC_SIZE + 1, MAGIC_SIZE + GUID_SIZE) = own

\* the datagram in the buffer is answered: neither `continue` is taken
answers(buf, own) == ~magic_differs(buf) /\ ~guid_is_own(buf, own)

\* the loop without its `break`
listener_after_NoBreak(replied) == "receiving"

\* run_listener after one datagram: `break` after a reply, else the next turn of the loop
listener_after(replied) == IF replied THEN "done" ELSE "receiving"

\* one socket shared by the calls of seek_peers: a datagram reaches every
\* runner still receiving
deliver_SharedSocket(dst, dgram) ==
  [s \in Seeks |->
     IF runner_pc[s] = "receiving" THEN Append(seekQ[s], dgram) ELSE seekQ[s]]

\* the queues of the seeker sockets after a datagram is sent to dst: a socket
\* exists from its bind until its runner ends
deliver(dst, dgram) ==
  [s \in Seeks |->
     IF dst = SeekSock(s) /\ runner_pc[s] = "receiving"
     THEN Append(seekQ[s], dgram) ELSE seekQ[s]]

\* the arrival history after a datagram is sent to dst: it is logged at each
\* socket whose queue it joined
arrive(dst, dgram) ==
  LET q == deliver(dst, dgram) IN
  [s \in Seeks |->
     IF q[s] # seekQ[s]
     THEN Append(arrived[s], [src |-> dgram.src, data |-> dgram.data, dst |-> dst])
     ELSE arrived[s]]

\* ------------------------------------------------- BroadcastAcceptor::accept

\* a try_recv() in place of the blocking recv()
port_published_NoWait(c) == TRUE

\* port_receiver.recv() can return: the transport task has sent the port
port_published(c) == port_chan[c] # <<>>

\* t1.join() and t2.join() have both returned
both_joined(c) == t1_pc[c] \in {"done", "failed"} /\ t2_pc[c] \in {"done", "failed"}

\* an accept() that binds a new passive endpoint for the call
AcceptStart_NewEndpoint(c) ==
  /\ accept_pc[c] = "idle"
  /\ c > 1 => accept_pc[c - 1] # "idle"
  /\ ops < MaxOps
  /\ ops' = ops + 1
  /\ tcp_port' = U16(tcp_port + c)
  /\ accept_pc' = [accept_pc EXCEPT ![c] = "wait_port"]
  /\ t1_pc' = [t1_pc EXCEPT ![c] = "lock"]
  /\ UNCHANGED <<guid, guard, backlog, beaconQ, t2_pc, port_chan, call_tcp_port,
                 transport_chan, buffer, accept_ret, accepted, heard, sent, seek_pc,
                 seek_guid, runner_pc, seekQ, rx, result, conns, env, codec,
                 beacon_port, arrived, early>>

\* accept() is entered: the two channels are made and run_acceptor is spawned
AcceptStart(c) ==
  /\ accept_pc[c] = "idle"
  /\ c > 1 => accept_pc[c - 1] # "idle"
  /\ ops < MaxOps
  /\ ops' = ops + 1
  /\ accept_pc' = [accept_pc EXCEPT ![c] = "wait_port"]
  /\ t1_pc' = [t1_pc EXCEPT ![c] = "lock"]
  /\ UNCHANGED <<guid, tcp_port, guard, backlog, beaconQ, t2_pc, port_chan, call_tcp_port,
                 transport_chan, buffer, accept_ret, accepted, heard, sent, seek_pc,
                 seek_guid, runner_pc, seekQ, rx, result, conns, env, codec,
                 beacon_port, arrived, early>>

\* a try_lock() whose failure is ignored, in place of lock()
RunAcceptorLock_NoWait(c) ==
  /\ t1_pc[c] = "lock"
  /\ guard' = c
  /\ port_chan' = [port_chan EXCEPT ![c] = Append(@, tcp_port)]
  /\ t1_pc' = [t1_pc EXCEPT ![c] = "accepting"]
  /\ UNCHANGED <<guid, tcp_port, backlog, beaconQ, accept_pc, t2_pc, call_tcp_port,
                 transport_chan, buffer, accept_ret, accepted, heard, sent, seek_pc,
                 seek_guid, runner_pc, seekQ, rx, result, conns, ops, env, codec,
                 beacon_port, arrived, early>>

\* run_acceptor: protected_acceptor.lock(), then port_sender.send(port)
RunAcceptorLock(c) ==
  /\ t1_pc[c] = "lock"
  /\ guard = 0
  /\ guard' = c
  /\ port_chan' = [port_chan EXCEPT ![c] = Append(@, tcp_port)]
  /\ t1_pc' = [t1_pc EXCEPT ![c] = "accepting"]
  /\ UNCHANGED <<guid, tcp_port, backlog, beaconQ, accept_pc, t2_pc, call_tcp_port,
                 transport_chan, buffer, accept_ret, accepted, heard, sent, seek_pc,
                 seek_guid, runner_pc, seekQ, rx, result, conns, ops, env, codec,
                 beacon_port, arrived, early>>

\* the guard leaked (mem::forget) instead of dropped at the return
RunAcceptorAccept_KeepGuard(c) ==
  /\ t1_pc[c] = "accepting"
  /\ backlog # <<>>
  /\ backlog' = Tail(backlog)
  /\ transport_chan' = [transport_chan EXCEPT ![c] = Append(@, Head(backlog))]
  /\ accepted' = [accepted EXCEPT ![c] = Head(backlog)]
  /\ t1_pc' = [t1_pc EXCEPT ![c] = "done"]
  /\ UNCHANGED <<guid, tcp_port, guard, beaconQ, accept_pc, t2_pc, port_chan, call_tcp_port,
                 buffer, accept_ret, heard, sent, seek_pc, seek_guid, runner_pc, seekQ, rx,
                 result, conns, ops, env, codec, beacon_port, arrived, early>>

\* run_acceptor: transport::accept returns a connection, transport_sender
\* sends it, the guard is dropped
RunAcceptorAccept(c) ==
  /\ t1_pc[c] = "accepting"
  /\ backlog # <<>>
  /\ backlog' = Tail(backlog)
  /\ transport_chan' = [transport_chan EXCEPT ![c] = Append(@, Head(backlog))]
  /\ accepted' = [accepted EXCEPT ![c] = Head(backlog)]
  /\ guard' = 0
  /\ t1_pc' = [t1_pc EXCEPT ![c] = "done"]
  /\ UNCHANGED <<guid, tcp_port, beaconQ, accept_pc, t2_pc, port_chan, call_tcp_port,
                 buffer, accept_ret, heard, sent, seek_pc, seek_guid, runner_pc, seekQ, rx,
                 result, conns, ops, env, codec,
                 beacon_port, arrived, early>>

\* run_acceptor: try!(transport::accept(..)) returns the error; nothing is
\* sent on the result channel, the guard is dropped
RunAcceptorFail(c) ==
  /\ t1_pc[c] = "accepting"
  /\ env < MaxEnv
  /\ env' = env + 1
  /\ guard' = 0
  /\ t1_pc' = [t1_pc EXCEPT ![c] = "failed"]
  /\ UNCHANGED <<guid, tcp_port, backlog, beaconQ, accept_pc, t2_pc, port_chan,
                 call_tcp_port, transport_chan, buffer, accept_ret, accepted, heard, sent,
                 seek_pc, seek_guid, runner_pc, seekQ, rx, result, conns, ops, codec,
                 beacon_port, arrived, early>>

\* accept(): port_receiver.recv() returns the port, run_listener is spawned
\* with a zeroed buffer, the caller goes on to join
AcceptGotPort(c) ==
  /\ accept_pc[c] = "wait_port"
  /\ port_published(c)
  /\ call_tcp_port' = [call_tcp_port EXCEPT ![c] =
                         IF port_chan[c] # <<>> THEN Some(Head(port_chan[c])) ELSE None]
  /\ port_chan' = [port_chan EXCEPT ![c] = IF @ # <<>> THEN Tail(@) ELSE @]
  /\ buffer' = [buffer EXCEPT ![c] = [k \in 1..(MAGIC_SIZE + GUID_SIZE) |-> 0]]
  /\ t2_pc' = [t2_pc EXCEPT ![c] = "receiving"]
  /\ accept_pc' = [accept_pc EXCEPT ![c] = "joining"]
  /\ UNCHANGED <<guid, tcp_port, guard, backlog, beaconQ, t1_pc, transport_chan,
                 accept_ret, accepted, heard, sent, seek_pc, seek_guid, runner_pc, seekQ,
                 rx, result, conns, ops, env, codec,
                 beacon_port, arrived, early>>

\* run_listener: one turn of the loop. recv_from takes the next datagram; a
\* wrong magic or the own guid continues; otherwise the reply socket is bound
\* and the port is sent to the datagram's source (ok), or the bind or the
\* send fails (~ok) and try! returns the error.
RunListenerRecv(c, ok) ==
  /\ t2_pc[c] = "receiving"
  /\ beaconQ # <<>>
  /\ LET d == Head(beaconQ)
         buf == recv_from(buffer[c], d.data)
         reply == [src |-> [ip |-> AcceptorIp, port |-> 50000 + Len(sent)],
                   data |-> serialise_port(call_tcp_port[c].val)]
     IN /\ beaconQ' = Tail(beaconQ)
        /\ buffer' = [buffer EXCEPT ![c] = buf]
        /\ heard' = [heard EXCEPT ![c] = Append(@, d)]
        /\ IF answers(buf, guid)
           THEN IF ok
                THEN /\ sent' = Append(sent, [call |-> c, dst |-> d.src, data |-> reply.data,
                                              trigger |-> d, nth |-> Len(heard[c]) + 1,
                                              in_window |-> \E s \in Seeks :
                                                 d.src = SeekSock(s) /\ seek_pc[s] = "window"])
                     /\ seekQ' = deliver(d.src, reply)
                     /\ arrived' = arrive(d.src, reply)
                     /\ t2_pc' = [t2_pc EXCEPT ![c] = listener_after(TRUE)]
                     /\ UNCHANGED env
                ELSE /\ env < MaxEnv
                     /\ env' = env + 1
                     /\ t2_pc' = [t2_pc EXCEPT ![c] = "failed"]
                     /\ UNCHANGED <<sent, seekQ, arrived>>
           ELSE /\ ok
                /\ t2_pc' = [t2_pc EXCEPT ![c] = listener_after(FALSE)]
                /\ UNCHANGED <<sent, seekQ, arrived, env>>
  /\ UNCHANGED <<guid, tcp_port, guard, backlog, accept_pc, t1_pc, port_chan,
                 call_tcp_port, transport_chan, accept_ret, seek_pc, seek_guid, runner_pc,
                 rx, result, conns, ops, accepted, codec, beacon_port, early>>

\* run_listener: try!(self.socket.recv_from(..)) returns the error
RunListenerRecvFail(c) ==
  /\ t2_pc[c] = "receiving"
  /\ env < MaxEnv
  /\ env' = env + 1
  /\ t2_pc' = [t2_pc EXCEPT ![c] = "failed"]
  /\ UNCHANGED <<guid, tcp_port, guard, backlog, beaconQ, accept_pc, t1_pc, port_chan,
                 call_tcp_port, transport_chan, buffer, accept_ret, accepted, heard, sent,
                 seek_pc, seek_guid, runner_pc, seekQ, rx, result, conns, ops, codec,
                 beacon_port, arrived, early>>

\* accept(): both joins return; transport_receiver.recv() gives the
\* connection, or unwrap() panics because the sender was dropped unused
AcceptJoin(c) ==
  /\ accept_pc[c] = "joining"
  /\ both_joined(c)
  /\ IF transport_chan[c] # <<>>
     THEN /\ accept_ret' = [accept_ret EXCEPT ![c] = Head(transport_chan[c])]
          /\ transport_chan' = [transport_chan EXCEPT ![c] = Tail(@)]
          /\ accept_pc' = [accept_pc EXCEPT ![c] = "returned"]
     ELSE /\ t1_pc[c] = "failed"
          /\ accept_pc' = [accept_pc EXCEPT ![c] = "panicked"]
          /\ UNCHANGED <<accept_ret, transport_chan>>
  /\ UNCHANGED <<guid, tcp_port, guard, backlog, beaconQ, t1_pc, t2_pc, port_chan,
                 call_tcp_port, buffer, accepted, heard, sent, seek_pc, seek_guid,
                 runner_pc, seekQ, rx, result, conns, ops, env, codec,
                 beacon_port, arrived, early>>

\* ------------------------------------------------------------- seek_peers

\* the ping without the guid to avoid
ping_NoGuid(guid_to_avoid) == MAGIC \o ZeroGuid

\* the ping: MAGIC followed by the guid to avoid, or by zeroes
ping(guid_to_avoid) == MAGIC \o unwrap_or(guid_to_avoid, ZeroGuid)

\* the loop of rx.try_recv(): every address queued in the channel
drain(channel) == channel

\* the seeking node calls seek_peers once its previous call has returned
SeekIdle(s) ==
  /\ seek_pc[s] = "idle"
  /\ s > 1 => seek_pc[s - 1] \in {"done", "failed"}

\* the beacon socket bound by accept() rather than by new: a ping sent while
\* no beacon task receives finds no socket
SeekStart_NoSocketYet(s, guid_to_avoid) ==
  /\ SeekIdle(s)
  /\ ops < MaxOps
  /\ ops' = ops + 1
  /\ seek_guid' = [seek_guid EXCEPT ![s] = guid_to_avoid]
  /\ beaconQ' = IF \E c \in Calls : t2_pc[c] = "receiving"
                THEN Append(beaconQ, [src |-> SeekSock(s), data |-> ping(guid_to_avoid)])
                ELSE beaconQ
  /\ runner_pc' = [runner_pc EXCEPT ![s] = "receiving"]
  /\ seek_pc' = [seek_pc EXCEPT ![s] = "window"]
  /\ early' = [early EXCEPT ![s] = beaconQ = <<>> /\ \A c \in Calls : t2_pc[c] = "none"]
  /\ UNCHANGED <<guid, tcp_port, guard, backlog, accept_pc, t1_pc, t2_pc, port_chan,
                 call_tcp_port, transport_chan, buffer, accept_ret, accepted, heard, sent,
                 seekQ, rx, result, conns, env, codec, beacon_port, arrived>>

\* seek_peers: the socket is bound, the ping is sent to the beacon port, the
\* channel is made and the runner is spawned; the caller starts its sleep
SeekStart(s, guid_to_avoid) ==
  /\ SeekIdle(s)
  /\ ops < MaxOps
  /\ ops' = ops + 1
  /\ seek_guid' = [seek_guid EXCEPT ![s] = guid_to_avoid]
  /\ beaconQ' = Append(beaconQ, [src |-> SeekSock(s), data |-> ping(guid_to_avoid)])
  /\ runner_pc' = [runner_pc EXCEPT ![s] = "receiving"]
  /\ seek_pc' = [seek_pc EXCEPT ![s] = "window"]
  /\ early' = [early EXCEPT ![s] = beaconQ = <<>> /\ \A c \in Calls : t2_pc[c] = "none"]
  /\ UNCHANGED <<guid, tcp_port, guard, backlog, accept_pc, t1_pc, t2_pc, port_chan,
                 call_tcp_port, transport_chan, buffer, accept_ret, accepted, heard, sent,
                 seekQ, rx, result, conns, env, codec, beacon_port, arrived>>

\* seek_peers: try! of bind, set_broadcast or send_to returns the error
SeekStartFail(s) ==
  /\ SeekIdle(s)
  /\ ops < MaxOps
  /\ ops' = ops + 1
  /\ env < MaxEnv
  /\ env' = env + 1
  /\ seek_pc' = [seek_pc EXCEPT ![s] = "failed"]
  /\ UNCHANGED <<guid, tcp_port, guard, backlog, beaconQ, accept_pc, t1_pc, t2_pc,
                 port_chan, call_tcp_port, transport_chan, buffer, accept_ret, accepted,
                 heard, sent, seek_guid, runner_pc, seekQ, rx, result, conns, codec,
                 beacon_port, arrived, early>>

\* the receive in a loop: the runner goes on receiving after it has published
RunnerRecv_Loop(s) ==
  /\ runner_pc[s] = "receiving"
  /\ seekQ[s] # <<>>
  /\ seek_pc[s] = "window"
  /\ LET d == Head(seekQ[s])
         buf == recv_from(<<0, 0>>, d.data)
     IN rx' = [rx EXCEPT ![s] = Append(@, [ip |-> d.src.ip, port |-> parse_port(buf)])]
  /\ seekQ' = [seekQ EXCEPT ![s] = Tail(@)]
  /\ UNCHANGED <<guid, tcp_port, guard, backlog, beaconQ, accept_pc, t1_pc, t2_pc,
                 port_chan, call_tcp_port, transport_chan, buffer, accept_ret, accepted,
                 heard, sent, seek_pc, seek_guid, runner_pc, result, conns, ops, env, codec,
                 beacon_port, arrived, early>>

\* runner: the one recv_from returns a datagram; the port is parsed from the
\* 2-byte buffer and joined to the source's ip; tx.send queues the address,
\* or fails (ignored) when seek_peers has returned and dropped rx
RunnerRecv(s) ==
  /\ runner_pc[s] = "receiving"
  /\ seekQ[s] # <<>>
  /\ LET d == Head(seekQ[s])
         buf == recv_from(<<0, 0>>, d.data)
         his_port == parse_port(buf)
         his_ep == [ip |-> d.src.ip, port |-> his_port]
     IN IF seek_pc[s] = "window"
        THEN /\ rx' = [rx EXCEPT ![s] = Append(@, his_ep)]
             /\ runner_pc' = [runner_pc EXCEPT ![s] = "done"]
        ELSE /\ runner_pc' = [runner_pc EXCEPT ![s] = "late"]
             /\ UNCHANGED rx
  /\ seekQ' = [seekQ EXCEPT ![s] = <<>>]
  /\ UNCHANGED <<guid, tcp_port, guard, backlog, beaconQ, accept_pc, t1_pc, t2_pc,
                 port_chan, call_tcp_port, transport_chan, buffer, accept_ret, accepted,
                 heard, sent, seek_pc, seek_guid, result, conns, ops, env, codec,
                 beacon_port, arrived, early>>

\* runner: try!(socket.recv_from(..)) returns the error
RunnerRecvFail(s) ==
  /\ runner_pc[s] = "receiving"
  /\ env < MaxEnv
  /\ env' = env + 1
  /\ runner_pc' = [runner_pc EXCEPT ![s] = "failed"]
  /\ seekQ' = [seekQ EXCEPT ![s] = <<>>]
  /\ UNCHANGED <<guid, tcp_port, guard, backlog, beaconQ, accept_pc, t1_pc, t2_pc,
                 port_chan, call_tcp_port, transport_chan, buffer, accept_ret, accepted,
                 heard, sent, seek_pc, seek_guid, rx, result, conns, ops, codec,
                 beacon_port, arrived, early>>

\* a blocking rx.recv() in place of the loop of try_recv()
SeekDrain_BlockingRecv(s) ==
  /\ seek_pc[s] = "window"
  /\ rx[s] # <<>>
  /\ result' = [result EXCEPT ![s] = drain(rx[s])]
  /\ rx' = [rx EXCEPT ![s] = <<>>]
  /\ seek_pc' = [seek_pc EXCEPT ![s] = "done"]
  /\ UNCHANGED <<guid, tcp_port, guard, backlog, beaconQ, accept_pc, t1_pc, t2_pc,
                 port_chan, call_tcp_port, transport_chan, buffer, accept_ret, accepted,
                 heard, sent, seek_guid, runner_pc, seekQ, conns, ops, env, codec,
                 beacon_port, arrived, early>>

\* seek_peers: thread::sleep_ms(500) is over; the channel is drained without
\* blocking and Ok(result) is returned, which drops rx
SeekDrain(s) ==
  /\ seek_pc[s] = "window"
  /\ result' = [result EXCEPT ![s] = drain(rx[s])]
  /\ rx' = [rx EXCEPT ![s] = <<>>]
  /\ seek_pc' = [seek_pc EXCEPT ![s] = "done"]
  /\ UNCHANGED <<guid, tcp_port, guard, backlog, beaconQ, accept_pc, t1_pc, t2_pc,
                 port_chan, call_tcp_port, transport_chan, buffer, accept_ret, accepted,
                 heard, sent, seek_guid, runner_pc, seekQ, conns, ops, env, codec,
                 beacon_port, arrived, early>>

\* ----------------------------------------------------------- environment

\* the passive endpoint of the acceptor
AcceptorEndpoint == [ip |-> AcceptorIp, port |-> tcp_port]

\* transport::connect(Endpoint::Tcp(endpoint)) with the first address of a
\* seek_peers result, as the tests do (a node may connect again to an address
\* it knows); a connection to the acceptor's endpoint waits in its backlog
\* until transport::accept takes it
Connect(s) ==
  /\ seek_pc[s] = "done"
  /\ result[s] # <<>>
  /\ Len(conns) < MaxConns
  /\ conns' = Append(conns, [by |-> s, to |-> result[s][1]])
  /\ backlog' = IF result[s][1] = AcceptorEndpoint
                THEN Append(backlog, Len(conns) + 1) ELSE backlog
  /\ UNCHANGED <<guid, tcp_port, guard, beaconQ, accept_pc, t1_pc, t2_pc, port_chan,
                 call_tcp_port, transport_chan, buffer, accept_ret, accepted, heard, sent,
                 seek_pc, seek_guid, runner_pc, seekQ, rx, result, ops, env, codec,
                 beacon_port, arrived, early>>

\* another host sends a datagram to the beacon port
StrayDatagram(data) ==
  /\ env < MaxEnv
  /\ env' = env + 1
  /\ beaconQ' = Append(beaconQ, [src |-> OtherSock, data |-> data])
  /\ UNCHANGED <<guid, tcp_port, guard, backlog, accept_pc, t1_pc, t2_pc, port_chan,
                 call_tcp_port, transport_chan, buffer, accept_ret, accepted, heard, sent,
                 seek_pc, seek_guid, runner_pc, seekQ, rx, result, conns, ops, codec,
                 beacon_port, arrived, early>>

\* another listener on the LAN answers the broadcast ping of seek_peers call s
OtherListenerReply(s) ==
  /\ runner_pc[s] = "receiving"
  /\ env < MaxEnv
  /\ env' = env + 1
  /\ seekQ' = [seekQ EXCEPT ![s] =
                 Append(@, [src |-> OtherSock, data |-> serialise_port(OtherListener.port)])]
  /\ arrived' = [arrived EXCEPT ![s] =
                   Append(@, [src |-> OtherSock, data |-> serialise_port(OtherListener.port),
                              dst |-> SeekSock(s)])]
  /\ UNCHANGED <<guid, tcp_port, guard, backlog, beaconQ, accept_pc, t1_pc, t2_pc,
                 port_chan, call_tcp_port, transport_chan, buffer, accept_ret, accepted,
                 heard, sent, seek_pc, seek_guid, runner_pc, rx, result, conns, ops, codec,
                 beacon_port, early>>

\* ------------------------------------------------------ the specification

Next ==
  \/ \E c \in Calls : AcceptStart(c)
  \/ \E c \in Calls : RunAcceptorLock(c)
  \/ \E c \in Calls : RunAcceptorAccept(c)
  \/ \E c \in Calls : RunAcceptorFail(c)
  \/ \E c \in Calls : AcceptGotPort(c)
  \/ \E c \in Calls : \E ok \in BOOLEAN : RunListenerRecv(c, ok)
  \/ \E c \in Calls : RunListenerRecvFail(c)
  \/ \E c \in Calls : AcceptJoin(c)
  \/ \E s \in Seeks : \E g \in {None, Some(guid)} : SeekStart(s, g)
  \/ \E s \in Seeks : SeekStartFail(s)
  \/ \E s \in Seeks : RunnerRecv(s)
  \/ \E s \in Seeks : RunnerRecvFail(s)
  \/ \E s \in Seeks : SeekDrain(s)
  \/ \E s \in Seeks : Connect(s)
  \/ \E data \in StrayData : StrayDatagram(data)
  \/ \E s \in Seeks : OtherListenerReply(s)

Spec == Init /\ [][Next]_vars

\* the caller of seek_peers is a running thread: its sleep of 500 ms ends and
\* try_recv() never blocks, so the step that ends the window is taken.  No
\* other step is assumed to be taken: a blocked recv_from, lock() or
\* transport::accept may wait for ever.
Fairness == \A s \in Seeks : WF_vars(SeekDrain(s))

SpecLive == Init /\ [][Next]_vars /\ Fairness

\* ------------------------------------------------------ the codec harness

\* a u32 as its 16-bit halves
U32Samples == {[hi |-> 0, lo |-> 0], [hi |-> 258, lo |-> 772], [hi |-> 65535, lo |-> 65535]}

PortSamples == {0, 1, 258, 5483, 65535}

V4Samples ==
  { [family |-> "V4", ip |-> ip, port |-> port] :
      ip \in [1..4 -> {0, 1, 255}], port \in PortSamples }

V6Samples ==
  { [family |-> "V6", segments |-> segments, port |-> port, flowinfo |-> f, scope_id |-> sc] :
      segments \in [1..8 -> {1, 65279}] \cup {[j \in 1..8 |-> (256 * j) + (9 - j)]},
      port \in {258, 65535}, f \in U32Samples, sc \in U32Samples }

\* raw buffers of every length up to MaxBufLen: a first byte, then one
\* repeated byte or a run of distinct bytes
RawSamples ==
  { [k \in 1..n |-> IF k = 1 THEN b0 ELSE IF fill = 7 THEN (k * 7) % 256 ELSE fill] :
      n \in 0..MaxBufLen, b0 \in {0, 1, 2, 255}, fill \in {0, 7, 255} }

CodecInit ==
  codec \in { [pc |-> "start", kind |-> "addr", input |-> a, wire |-> <<>>, out |-> None] :
                a \in V4Samples \cup V6Samples }
       \cup { [pc |-> "start", kind |-> "raw", input |-> b, wire |-> b, out |-> None] :
                b \in RawSamples }

\* serialise_address(a)
CodecSerialise ==
  /\ codec.pc = "start"
  /\ codec.kind = "addr"
  /\ codec' = [codec EXCEPT !.pc = "serialised", !.wire = serialise_address(codec.input)]
  /\ UNCHANGED protoVars

\* parse_address(&wire[..]) of a serialised address, or of a raw buffer
CodecParse ==
  /\ \/ codec.pc = "serialised"
     \/ codec.pc = "start" /\ codec.kind = "raw"
  /\ codec' = [codec EXCEPT !.pc = "parsed", !.out = parse_address(codec.wire)]
  /\ UNCHANGED protoVars

NextCodec ==
  \/ CodecSerialise
  \/ CodecParse

\* the codec functions are called on their own: no call of accept() or
\* seek_peers is made
InitCodec ==
  /\ ProtoInit
  /\ guid = ZeroGuid
  /\ tcp_port = 5483
  /\ CodecInit

SpecCodec == InitCodec /\ [][NextCodec]_vars

\* ------------------------------------------------- the port codec harness

\* every value of a u16
Ports == 0..65535

CodecPortInit ==
  codec \in { [pc |-> "start", kind |-> "port", input |-> p, wire |-> <<>>, out |-> None] :
                p \in Ports }

\* serialise_port(p)
CodecSerialisePort ==
  /\ codec.pc = "start"
  /\ codec.kind = "port"
  /\ codec' = [codec EXCEPT !.pc = "serialised", !.wire = serialise_port(codec.input)]
  /\ UNCHANGED protoVars

\* parse_port(wire) of a serialised port
CodecParsePort ==
  /\ codec.pc = "serialised"
  /\ codec.kind = "port"
  /\ codec' = [codec EXCEPT !.pc = "parsed", !.out = parse_port(codec.wire)]
  /\ UNCHANGED protoVars

NextPortCodec ==
  \/ CodecSerialisePort
  \/ CodecParsePort

InitPortCodec ==
  /\ ProtoInit
  /\ guid = ZeroGuid
  /\ CodecPortInit

SpecPortCodec == InitPortCodec /\ [][NextPortCodec]_vars

\* ------------------------------------------------------------------ claims

Last(seq) == seq[Len(seq)]

\* the replies accept() call c has sent
RepliesOf(c) == {k \in 1..Len(sent) : sent[k].call = c}

\* the datagram is a full ping frame whose 16 bytes after the first 4 are g
CarriesGuid(data, g) ==
  /\ Len(data) >= MAGIC_SIZE + GUID_SIZE
  /\ SubSeq(data, MAGIC_SIZE + 1, MAGIC_SIZE + GUID_SIZE) = g

\* the datagram seek_peers call s broadcast
PingOf(s) == [src |-> SeekSock(s), data |-> MAGIC \o unwrap_or(seek_guid[s], ZeroGuid)]

\* run_listener's buffer after the first n datagrams of h, from the zeroed buffer
RECURSIVE BufAfter(_, _)
BufAfter(h, n) ==
  IF n = 0 THEN [k \in 1..(MAGIC_SIZE + GUID_SIZE) |-> 0]
  ELSE recv_from(BufAfter(h, n - 1), h[n].data)

\* the datagrams of h that pass both checks of the loop
Answered(h) == {n \in 1..Len(h) : answers(BufAfter(h, n), guid)}

TaskFailed(c) == t1_pc[c] = "failed" \/ t2_pc[c] = "failed"

\* how accept() call c ended: accept() has no path that returns Err
Outcome(c) ==
  CASE accept_pc[c] = "returned" -> "Ok"
    [] accept_pc[c] = "panicked" -> "panic"
    [] OTHER -> "pending"

C2_SelfAvoidance ==
  /\ \A k \in 1..Len(sent) : ~CarriesGuid(sent[k].trigger.data, guid)
  /\ \A c \in Calls :
       (heard[c] # <<>> /\ CarriesGuid(Last(heard[c]).data, guid))
         => /\ t2_pc[c] \in {"receiving", "failed"}
            /\ \A k \in RepliesOf(c) : sent[k].nth < Len(heard[c])

\* a beacon task has received a ping carrying its own non-zero guid and is
\* receiving again
C2_Witness ==
  \E c \in Calls :
    /\ guid # ZeroGuid
    /\ heard[c] # <<>>
    /\ Last(heard[c]).data = MAGIC \o guid
    /\ t2_pc[c] = "receiving"
    /\ sent = <<>>

C4_NoReplyToMalformed ==
  \A k \in 1..Len(sent) :
    /\ Len(sent[k].trigger.data) >= MAGIC_SIZE + GUID_SIZE
    /\ SubSeq(sent[k].trigger.data, 1, MAGIC_SIZE) = MAGIC

\* C5 -- the beacon task of an accept() call exists, receives and replies
\* only once the transport task of that call has published the bound port;
\* the port it holds is that port, and every reply carries it.
C5_ReplyAfterPortPublished ==
  /\ \A c \in Calls :
       (t2_pc[c] # "none" \/ heard[c] # <<>> \/ RepliesOf(c) # {}) =>
         /\ t1_pc[c] \in {"accepting", "done", "failed"}
         /\ call_tcp_port[c] = Some(tcp_port)
  /\ \A k \in 1..Len(sent) : parse_port(sent[k].data) = tcp_port

\* a reply has been sent while the transport task of its call still awaits
\* the inbound connection
C5_Witness ==
  \E k \in 1..Len(sent) :
    /\ t1_pc[sent[k].call] = "accepting"
    /\ guard = sent[k].call
    /\ parse_port(sent[k].data) = tcp_port

\* C6 -- when accept() returns, both tasks have finished, one connection has
\* been accepted and one reply has been sent by this call, and the value
\* returned is the connection the transport task accepted.
C6_ReturnsAfterBoth ==
  \A c \in Calls :
    accept_pc[c] = "returned" =>
      /\ t1_pc[c] \in {"done", "failed"}
      /\ t2_pc[c] \in {"done", "failed"}
      /\ accepted[c] # 0
      /\ accept_ret[c] = accepted[c]
      /\ Cardinality(RepliesOf(c)) = 1

\* C7 -- one accept() call sends at most one reply; it goes to the source of
\* the first datagram that passed both checks, and the beacon task receives
\* nothing after it.  While the task is in its loop no datagram has passed.
C7_SingleReply ==
  \A c \in Calls :
    /\ Cardinality(RepliesOf(c)) <= 1
    /\ \A k \in RepliesOf(c) :
         /\ sent[k].nth = Len(heard[c])
         /\ sent[k].trigger = heard[c][sent[k].nth]
         /\ sent[k].dst = sent[k].trigger.src
         /\ Answered(heard[c]) = {sent[k].nth}
         /\ t2_pc[c] = "done"
    /\ t2_pc[c] = "receiving" => Answered(heard[c]) = {}
    /\ t2_pc[c] = "done" => RepliesOf(c) # {}

\* a beacon task has replied to the first ping and ended while a second
\* ping it would answer waits on the beacon socket
C7_Witness ==
  \E c \in Calls :
    /\ guid # ZeroGuid
    /\ Cardinality(RepliesOf(c)) = 1
    /\ t2_pc[c] = "done"
    /\ beaconQ # <<>>
    /\ Head(beaconQ).data = MAGIC \o ZeroGuid
    /\ \A d \in Calls : t2_pc[d] \in {"none", "done"}

\* C8 -- an accept() call one of whose tasks failed with an I/O error
\* surfaces the error: it does not return Ok.  (The panic of the final
\* unwrap() is counted here as surfacing it.)
C8_ErrorSurfaced ==
  \A c \in Calls :
    TaskFailed(c) => Outcome(c) \in {"pending", "panic", "Err"}

\* C9 -- address round trip: for every IPv4 and every IPv6 socket address,
\* with any flow-info and scope-id, parse_address(serialise_address(a))
\* returns Some(a).
C9_RoundTrip ==
  (codec.pc = "parsed" /\ codec.kind = "addr")
    => codec.out = [tag |-> "Some", addr |-> codec.input]

\* an IPv6 address with non-zero flow-info and scope-id has been serialised
\* to 27 bytes and parsed back
C9_Witness ==
  /\ codec.pc = "parsed"
  /\ codec.kind = "addr"
  /\ codec.input.family = "V6"
  /\ codec.input.flowinfo = [hi |-> 258, lo |-> 772]
  /\ codec.input.scope_id = [hi |-> 65535, lo |-> 65535]
  /\ Len(codec.wire) = 27
  /\ codec.out.tag = "Some"

\* C10 -- parse_address returns None, and does not panic, for every buffer
\* whose first byte is neither 0 nor 1, whatever bytes follow it and however
\* few they are.
C10_NoneForOtherFamily ==
  (codec.pc = "parsed" /\ codec.kind = "raw" /\ Len(codec.input) >= 1
     /\ codec.input[1] \notin {0, 1})
    => codec.out = None

\* a one-byte buffer holding 255 has been parsed to None
C10_Witness ==
  /\ codec.pc = "parsed"
  /\ codec.kind = "raw"
  /\ codec.input = <<255>>
  /\ codec.out = None

\* C11 -- port round trip: for every 16-bit port p, serialise_port(p) is the
\* two bytes <<p mod 256, p div 256>>, low byte first, and
\* parse_port(serialise_port(p)) = p.
C11_PortRoundTrip ==
  (codec.kind = "port" /\ codec.pc \in {"serialised", "parsed"}) =>
    /\ codec.wire = <<codec.input % 256, codec.input \div 256>>
    /\ codec.pc = "parsed" => codec.out = codec.input

\* port 5483 = 21 * 256 + 107 has been serialised to <<107, 21>> and parsed back
C11_Witness ==
  /\ codec.kind = "port"
  /\ codec.pc = "parsed"
  /\ codec.input = 5483
  /\ codec.wire = <<107, 21>>
  /\ codec.out = 5483

\* C12 -- for every buffer shorter than 27 bytes parse_address fails: it
\* returns neither an address nor None.  (The panic of an out-of-bounds
\* index is counted here as failing.)
C12_ShortBufferFails ==
  (codec.kind = "raw" /\ codec.pc = "parsed" /\ Len(codec.input) < 27)
    => codec.out.tag \notin {"Some", "None"}

\* C20 -- byte-order asymmetry: for an IPv4 address bytes 5 and 6 of
\* serialise_address are <<p div 256, p mod 256>>, the reverse of
\* serialise_port(p), and bytes 7 to 26 are zero; for an IPv6 address bytes
\* 17 and 18 hold the port high byte first.
C20_ByteOrderAsymmetry ==
  (codec.kind = "addr" /\ codec.pc \in {"serialised", "parsed"}) =>
    LET p == codec.input.port
        w == codec.wire
    IN /\ Len(w) = 27
       /\ codec.input.family = "V4" =>
            /\ <<At(w, 5), At(w, 6)>> = <<p \div 256, p % 256>>
            /\ <<At(w, 6), At(w, 5)>> = serialise_port(p)
            /\ \A i \in 7..26 : At(w, i) = 0
       /\ codec.input.family = "V6" =>
            <<At(w, 17), At(w, 18)>> = <<p \div 256, p % 256>>

\* an IPv4 address with port 258 has been serialised with bytes 5 and 6
\* <<1, 2>>, while serialise_port(258) is <<2, 1>>
C20_Witness ==
  /\ codec.kind = "addr"
  /\ codec.pc = "serialised"
  /\ codec.input.family = "V4"
  /\ codec.input.port = 258
  /\ <<At(codec.wire, 5), At(codec.wire, 6)>> = <<1, 2>>
  /\ serialise_port(258) = <<2, 1>>

\* the addresses in a sequence
Range(seq) == {seq[i] : i \in 1..Len(seq)}

\* C13 -- one seek_peers call collects at most one address, however many
\* replies reached its socket; the address has the ip of the source of the
\* reply the runner received, the first to reach the socket, and the port
\* decoded from that reply's two bytes.
C13_AtMostOneAddress ==
  \A s \in Seeks :
    /\ Len(rx[s]) + Len(result[s]) <= 1
    /\ \A a \in Range(rx[s]) \cup Range(result[s]) :
         /\ arrived[s] # <<>>
         /\ Len(arrived[s][1].data) = 2
         /\ a = [ip |-> arrived[s][1].src.ip, port |-> parse_port(arrived[s][1].data)]

\* another listener and the acceptor have both replied within the window of
\* one call, and the call has returned the other listener's address alone
C13_Witness ==
  \E s \in Seeks :
    /\ seek_pc[s] = "done"
    /\ result[s] = <<OtherListener>>
    /\ Len(arrived[s]) = 2
    /\ arrived[s][1].src.ip = OtherIp
    /\ arrived[s][2].src.ip = AcceptorIp
    /\ \E k \in 1..Len(sent) : sent[k].dst = SeekSock(s) /\ sent[k].in_window

\* C14 -- the caller of seek_peers always terminates: every call that has
\* entered its window leaves it for good by returning Ok(result), whether or
\* not a reply ever arrives and whether or not its runner has finished.  (A
\* call enters its window once and leaves it only by returning, so that no
\* call stays in its window exactly when from some point on none is in it.)
C14_SeekTerminates ==
  <>[](\A s \in Seeks : seek_pc[s] # "window")

\* a call has returned an empty result while no datagram ever reached its
\* socket and its runner is still blocked in recv_from
C14_Witness ==
  \E s \in Seeks :
    /\ seek_pc[s] = "done"
    /\ result[s] = <<>>
    /\ arrived[s] = <<>>
    /\ runner_pc[s] = "receiving"

\* the transport tasks between their lock() and their return
Holders == {c \in Calls : t1_pc[c] = "accepting"}

\* C15 -- mutual exclusion on the passive endpoint: at most one transport
\* task is between lock() and its return, and it is the holder of the guard;
\* a port has been published, and a connection awaited or accepted, only by
\* a task that took the guard.
C15_MutualExclusion ==
  /\ Cardinality(Holders) <= 1
  /\ \A c \in Calls : (c \in Holders) <=> (guard = c)
  /\ guard = 0 <=> Holders = {}
  /\ \A c \in Calls :
       (port_chan[c] # <<>> \/ call_tcp_port[c] # None \/ accepted[c] # 0
          \/ transport_chan[c] # <<>>)
         => t1_pc[c] \in {"accepting", "done", "failed"}

\* one transport task holds the guard and awaits a connection, its port
\* published, while the transport task of a second call is blocked in lock()
C15_Witness ==
  \E c \in Calls : \E d \in Calls :
    /\ c # d
    /\ guard = c
    /\ t1_pc[c] = "accepting"
    /\ call_tcp_port[c] = Some(tcp_port)
    /\ t1_pc[d] = "lock"
    /\ accept_pc[d] = "wait_port"

\* C16, as claimed -- of two accept() calls the second one's beacon task
\* receives only after the first one's transport task has accepted a
\* connection and released the guard; no connection is returned by two calls.
C16_SecondAfterFirstAccepted ==
  \A c \in Calls : \A d \in Calls :
    c # d =>
      /\ (t1_pc[d] = "accepting" /\ t2_pc[d] # "none" /\ t1_pc[c] \notin {"none", "lock"})
           => (accepted[c] # 0 /\ guard # c)
      /\ (accept_pc[c] = "returned" /\ accept_pc[d] = "returned")
           => accept_ret[c] # accept_ret[d]

\* C16, amended -- two accept() calls are serialised by the guard: while one
\* transport task holds it, a call blocked in lock() has no beacon task and
\* has received and sent nothing, and a call that has a beacon task has
\* released the guard, having accepted a connection or failed.  Each call
\* takes the port and the connection from its own channels; a connection is
\* accepted by one transport task and returned by that call alone.
C16_Serialised ==
  \A c \in Calls : \A d \in Calls :
    c # d =>
      /\ (t1_pc[c] = "accepting" /\ t1_pc[d] = "lock")
           => (t2_pc[d] = "none" /\ heard[d] = <<>> /\ RepliesOf(d) = {}
               /\ call_tcp_port[d] = None)
      /\ (t1_pc[c] = "accepting" /\ t2_pc[d] # "none")
           => (t1_pc[d] \in {"done", "failed"} /\ guard = c)
      /\ (t1_pc[c] = "done") <=> (accepted[c] # 0)
      /\ accepted[c] # 0 => accepted[c] # accepted[d]
      /\ \A i \in 1..Len(transport_chan[c]) : transport_chan[c][i] = accepted[c]
      /\ accept_pc[c] = "returned"
           => (accept_ret[c] = accepted[c] /\ accept_ret[c] # accept_ret[d])

\* two calls are outstanding: the first has replied and accepted a
\* connection, the second has taken the guard after it and is receiving
C16_Witness ==
  \E c \in Calls : \E d \in Calls :
    /\ c # d
    /\ accept_pc[c] = "joining" /\ accept_pc[d] = "joining"
    /\ t1_pc[c] = "done" /\ accepted[c] # 0 /\ RepliesOf(c) # {}
    /\ t1_pc[d] = "accepting" /\ guard = d
    /\ t2_pc[d] = "receiving"

\* the places where datagram d is: queued on the beacon socket, or received
\* by the beacon task of a call
PlacesOf(d) ==
  {<<0, i>> : i \in {j \in 1..Len(beaconQ) : beaconQ[j] = d}}
    \cup UNION {{<<c, i>> : i \in {j \in 1..Len(heard[c]) : heard[c][j] = d}} : c \in Calls}

\* C17 -- a ping sent to the beacon port is not lost: it is queued on the
\* beacon socket or has been received by one beacon task, once.  A ping sent
\* while no beacon task had started and the socket's queue was empty stays at
\* the head of the queue until a beacon task receives it, as its first
\* datagram.
C17_EarlyPingKept ==
  \A s \in Seeks :
    /\ seek_pc[s] \in {"window", "done"} => Cardinality(PlacesOf(PingOf(s))) = 1
    /\ early[s] =>
         \/ /\ \A c \in Calls : heard[c] = <<>>
            /\ beaconQ # <<>>
            /\ Head(beaconQ) = PingOf(s)
         \/ \E c \in Calls : heard[c] # <<>> /\ heard[c][1] = PingOf(s)

\* a ping sent before any beacon task had started has been received by an
\* accept() call as its first datagram, and answered
C17_Witness ==
  \E s \in Seeks : \E c \in Calls :
    /\ early[s]
    /\ heard[c] # <<>>
    /\ heard[c][1] = PingOf(s)
    /\ \E k \in RepliesOf(c) : sent[k].nth = 1 /\ sent[k].dst = SeekSock(s)

\* C18 -- a reply of the acceptor sent after the window of the call it
\* answers is in no result: that call has returned, its channel is empty and
\* its result has no address of the acceptor.  A call collects only from its
\* own socket and channel: every datagram that reached its socket was sent
\* to that socket, and an address of the acceptor in its channel or result
\* comes from a reply sent to its socket while its window was open.
C18_LateReplyInNoResult ==
  /\ \A k \in 1..Len(sent) : \A s \in Seeks :
       (sent[k].dst = SeekSock(s) /\ ~sent[k].in_window) =>
         /\ seek_pc[s] = "done"
         /\ rx[s] = <<>>
         /\ \A a \in Range(result[s]) : a.ip # AcceptorIp
  /\ \A t \in Seeks :
       /\ \A i \in 1..Len(arrived[t]) : arrived[t][i].dst = SeekSock(t)
       /\ \A u \in Seeks : u # t => SeekSock(u) # SeekSock(t)
       /\ \A a \in Range(rx[t]) \cup Range(result[t]) :
            a.ip = AcceptorIp =>
              \E k \in 1..Len(sent) : sent[k].dst = SeekSock(t) /\ sent[k].in_window

\* the reply to a call's ping was sent after its window and reached its
\* socket; the call had returned empty, its runner found the channel closed,
\* and a later call has returned without the address too
C18_Witness ==
  \E s \in Seeks : \E t \in Seeks :
    /\ s < t
    /\ \E k \in 1..Len(sent) : sent[k].dst = SeekSock(s) /\ ~sent[k].in_window
    /\ Len(arrived[s]) = 1
    /\ arrived[s][1].src.ip = AcceptorIp
    /\ runner_pc[s] = "late"
    /\ result[s] = <<>>
    /\ seek_pc[t] = "done"
    /\ result[t] = <<>>

\* C19 -- accept() and seek_peers leave the acceptor's identity unchanged: no
\* step changes the guid, the beacon port or the passive endpoint's port, and
\* every reply sent carries that one transport port.
C19_IdentityUnchanged ==
  /\ [][guid' = guid /\ beacon_port' = beacon_port /\ tcp_port' = tcp_port]_vars
  /\ [](\A k \in 1..Len(sent) : sent[k].data = serialise_port(tcp_port))

\* two accept() calls have returned, each having sent one reply, and both
\* replies carry the same port
C19_Witness ==
  \E j \in 1..Len(sent) : \E k \in 1..Len(sent) :
    /\ sent[j].call # sent[k].call
    /\ accept_pc[sent[j].call] = "returned"
    /\ accept_pc[sent[k].call] = "returned"
    /\ sent[j].data = sent[k].data
    /\ parse_port(sent[k].data) = tcp_port

====
